---- MODULE Spec2Model ----
(***************************************************************************)
(* Model of the download orchestration engine (services/ytdlp-manager.js): *)
(* the job table `downloads`, the per-job emitters `progressEmitters`,     *)
(* the to-file job task of startDownload, the SSE subscribers of           *)
(* setupProgressStream, the retention timers of scheduleFileDeletion and   *)
(* the request handler streamDownload with its two extractor processes.    *)
(*                                                                         *)
(* One action is one turn of the Node.js event loop: a handler runs to     *)
(* completion, together with the microtasks (await continuations) that it  *)
(* makes runnable.                                                         *)
(***************************************************************************)
EXTENDS Integers, Sequences, FiniteSets, TLC

\* ------------------------------------------------------------------ bounds
\* Number of ids uuidv4() hands out (to-file jobs and stream jobs together).
MaxJobs == 2
\* Number of streamDownload requests.
MaxStreams == 2
\* Number of setupProgressStream requests.
MaxSubs == 2
\* Number of stderr chunks carrying a percentage, over all jobs.
MaxLines == 2
\* Largest percentage printed by the extractor (scaled).
MaxPercent == 1
MaxChunks == 1
MaxHosts == 2
MaxMinutes == 2
MaxFormats == 2

Ids == 1..MaxJobs
Streams == 1..MaxStreams
Subs == 1..MaxSubs
Percents == 0..MaxPercent

\* JavaScript null, for the nullable fields filePath, error and metadata.
null == <<>>

\* path.join(DOWNLOAD_DIR, outputFile): the artifact of job id.
FilePathOf(id) == <<id>>

\* Messages of the errors that reach a job record.
OutputMissing == "Output file not found"
ExtractorFailed == "Command failed"
SpawnFailed == "spawn failed"
ExitCodeError == "yt-dlp exit code"
InvalidArgs == "invalid arguments"
ScheduleFailed == "deletion not scheduled"

\* What the streaming extractor may have written to stderr when it exits
\* with a failure code.
NoDiagnostic == "none"
LoginRequired == "login required"
RateLimited == "rate-limit reached"
Diagnostics == {NoDiagnostic, LoginRequired, RateLimited}

\* Exit codes of the streaming subprocess: 0, a failure, or null (signal).
ExitOk == 0
ExitFail == 1
ExitSignal == 2
ExitCodes == {ExitOk, ExitFail, ExitSignal}

VARIABLES
    uuids,             \* number of ids uuidv4() has returned
    starting,          \* startDownload calls awaiting resolveRedirect
    returned,          \* ids startDownload has returned to its caller
    downloads,         \* the job table: id -> record
    progressEmitters,  \* id -> the subscribers whose listeners are attached
    ytdlProcess,       \* to-file subprocess of a job: "running" | "exited"
    task,              \* background task of a job: "awaiting" | "done" | "rejected"
    artifact,          \* history: the subprocess exit of a job and its deletion timer
    emitted,           \* history: terminal events emitted on a job's emitter
    files,             \* ids whose artifact exists in DOWNLOAD_DIR
    timers,            \* id -> number of pending deletion timers
    scheduled,         \* history: id -> number of scheduleFileDeletion calls
    lines,             \* number of stderr percentage chunks handled
    subs,              \* subscriber -> its response and what it received
    streams,           \* streamDownload request -> its state
    spawns,            \* history: id -> extractor processes started for the job
    resolver,          \* the resolveRedirect call under study
    reply,             \* the last answer of the status route
    preview,           \* the getVideoPreview call under study
    query              \* the format-service call under study and its answer

vars == <<uuids, starting, returned, downloads, progressEmitters, ytdlProcess,
          task, artifact, emitted, files, timers, scheduled, lines, subs, streams,
          spawns, resolver, reply, preview, query>>

jobVars == <<starting, returned, progressEmitters, ytdlProcess, task, artifact,
             emitted, files, timers, scheduled, lines, subs, resolver, reply, preview, query>>

\* ------------------------------------------------------------- job records
\* The record startDownload inserts.
newDownload_pending ==
    [status |-> "pending", progress |-> 0, filePath |-> null, error |-> null]

newDownload ==
    [status |-> "downloading", progress |-> 0, filePath |-> null, error |-> null]

\* The record streamDownload inserts.
newStream ==
    [status |-> "streaming", progress |-> 0, filePath |-> null, error |-> null,
     metadata |-> null]

Terminal == {"completed", "error"}

\* ---------------------------------------------------------------- emitters
\* sendEvent of setupProgressStream: writes the event unless the response
\* has ended.
sendEvent(sub, event, data) ==
    IF sub.ended
    THEN sub
    ELSE [sub EXCEPT !.received = Append(@, [event |-> event, data |-> data])]

\* progressEmitter.emit(event, data): every attached listener runs. The
\* emitter is the one created for the job and captured by its task.
emit_sharedEmitter(responses, id, event, data) ==
    [s \in DOMAIN responses |->
        IF \E j \in DOMAIN progressEmitters : s \in progressEmitters[j]
        THEN sendEvent(responses[s], event, data)
        ELSE responses[s]]

emit(responses, id, event, data) ==
    [s \in DOMAIN responses |->
        IF s \in progressEmitters[id] THEN sendEvent(responses[s], event, data)
        ELSE responses[s]]

\* emit('error', ...) throws when no 'error' listener is attached.
emitErrorThrows(id) == progressEmitters[id] = {}

\* Map.prototype.set(key, value): the entry of the key is added or replaced.
set(map, key, value) ==
    [k \in DOMAIN map \cup {key} |-> IF k = key THEN value ELSE map[k]]

\* No call is under study.
idle == [pc |-> "idle"]

\* The status route has not answered yet.
noReply == [statusCode |-> 0, id |-> 0, error |-> null, body |-> null, object |-> 0]

Init ==
    /\ uuids = 0
    /\ starting = {}
    /\ returned = {}
    /\ downloads = <<>>
    /\ progressEmitters = <<>>
    /\ ytdlProcess = <<>>
    /\ task = <<>>
    /\ artifact = <<>>
    /\ emitted = <<>>
    /\ files = {}
    /\ timers = <<>>
    /\ scheduled = <<>>
    /\ lines = 0
    /\ subs = <<>>
    /\ streams = <<>>
    /\ spawns = <<>>
    /\ resolver = idle
    /\ reply = noReply
    /\ preview = idle
    /\ query = idle


\* --------------------------------------------------------- to-file jobs
\* const id = uuidv4(): an id no earlier call returned.
uuidv4_reused == IF uuids = 0 THEN 1 ELSE uuids

uuidv4 == uuids + 1

\* getDownloadStatus(id) on a job table: throws 'Download not found' for an
\* id without a record, else returns { ...status }: a new object with the
\* fields of the record. object is the id whose table record the returned
\* object is, 0 for an object of its own.
NotFound == "Download not found"

getDownloadStatus_sameObject(table, id) ==
    IF id \notin DOMAIN table
    THEN [threw |-> TRUE, message |-> NotFound]
    ELSE [threw |-> FALSE, value |-> table[id], object |-> id]

getDownloadStatus(table, id) ==
    IF id \notin DOMAIN table
    THEN [threw |-> TRUE, message |-> NotFound]
    ELSE [threw |-> FALSE, value |-> table[id], object |-> 0]

\* startDownload up to `await resolveRedirect(original)`.
StartDownload ==
    /\ uuids < MaxJobs
    /\ uuids' = uuidv4
    /\ starting' = starting \cup {uuidv4}
    /\ UNCHANGED <<returned, downloads, progressEmitters, ytdlProcess, task,
                   artifact, emitted, files, timers, scheduled, lines, subs, streams, spawns, resolver, reply, preview, query>>

\* The extractor processes the background task of a to-file job starts: one
\* ytdl.exec(args), outside any loop, and no metadata-only run.
toFileProcesses_twice == [payload |-> 2, metadata |-> 0]

toFileProcesses == [payload |-> 1, metadata |-> 0]

\* startDownload after the redirect is resolved: the emitter and the record
\* are inserted, the background task runs up to `await ytdlProcess` (the
\* subprocess is spawned), and the id is returned.
StartDownloadResolved(id) ==
    /\ id \in starting
    /\ starting' = starting \ {id}
    /\ progressEmitters' = set(progressEmitters, id, {})
    /\ downloads' = set(downloads, id, newDownload)
    /\ ytdlProcess' = ytdlProcess @@ (id :> "running")
    /\ task' = task @@ (id :> "awaiting")
    /\ artifact' = artifact @@ (id :> [exited |-> FALSE, ok |-> FALSE, found |-> FALSE,
                                      swept |-> "no"])
    /\ emitted' = emitted @@ (id :> <<>>)
    /\ timers' = timers @@ (id :> 0)
    /\ scheduled' = scheduled @@ (id :> 0)
    /\ returned' = returned \cup {id}
    /\ spawns' = spawns @@ (id :> toFileProcesses)
    /\ UNCHANGED <<uuids, files, lines, subs, streams, resolver, reply, preview, query>>

\* The stderr 'data' handler, for a chunk that matches /download\s+(\d+\.\d+)%/
\* (a chunk that does not match changes nothing).
stderrProgress(download, progress) ==
    [download EXCEPT !.progress = progress]

StderrData(id, progress) ==
    /\ id \in DOMAIN ytdlProcess
    /\ ytdlProcess[id] = "running"
    /\ lines < MaxLines
    /\ lines' = lines + 1
    /\ IF id \in DOMAIN downloads
       THEN /\ downloads' = [downloads EXCEPT ![id] = stderrProgress(@, progress)]
            /\ subs' = emit(subs, id, "progress", progress)
       ELSE UNCHANGED <<downloads, subs>>
    /\ UNCHANGED <<uuids, starting, returned, progressEmitters, ytdlProcess, task,
                   artifact, emitted, files, timers, scheduled, streams, spawns, resolver, reply, preview, query>>

\* files.find((f) => f.startsWith(id)) over fs.readdirSync(DOWNLOAD_DIR).
outputFile_any(dir, id) == FilePathOf(id)

outputFile(dir, id) == IF id \in dir THEN FilePathOf(id) ELSE null

\* The success branch of the task: the record of a completed job.
completeDownload(download, filePath) ==
    [download EXCEPT !.status = "completed", !.filePath = filePath]

\* The catch block of the task: the record of a failed job.
failDownload_keepStatus(download, message) ==
    [download EXCEPT !.error = <<message>>]

failDownload(download, message) ==
    [download EXCEPT !.status = "error", !.error = <<message>>]

\* scheduleFileDeletion(filePath), called inside the try block of the task:
\* it parses the retention and arms a timer (the unlink runs later, in the
\* timer callback, inside its own try/catch), so the call itself never throws.
scheduleFileDeletionThrows_always == TRUE

scheduleFileDeletionThrows == FALSE

\* The subprocess promise settles and the task continues after
\* `await ytdlProcess`. ok: the promise resolved; wrote: the extractor left
\* a file named after the id in DOWNLOAD_DIR. The try block marks the job
\* completed, emits 'completed' and schedules the deletion; the catch block
\* runs when the promise rejected, when no file was found, or when a call of
\* the try block threw.
ProcessExit(id, ok, wrote) ==
    LET dir == IF wrote THEN files \cup {id} ELSE files
        filePath == outputFile(dir, id)
        completes == ok /\ filePath # null
        caught == ~completes \/ scheduleFileDeletionThrows
        message == IF ~ok THEN ExtractorFailed
                   ELSE IF filePath = null THEN OutputMissing
                   ELSE ScheduleFailed
        tried == IF completes THEN completeDownload(downloads[id], filePath)
                 ELSE downloads[id]
        heard == IF completes THEN emit(subs, id, "completed", filePath) ELSE subs
    IN  /\ id \in DOMAIN ytdlProcess
        /\ ytdlProcess[id] = "running"
        /\ ytdlProcess' = [ytdlProcess EXCEPT ![id] = "exited"]
        /\ files' = dir
        /\ artifact' = [artifact EXCEPT ![id] = [exited |-> TRUE, ok |-> ok, found |-> id \in dir,
                                             swept |-> "no"]]
        /\ emitted' = [emitted EXCEPT ![id] =
               @ \o (IF completes THEN <<"completed">> ELSE <<>>)
                 \o (IF caught THEN <<"error">> ELSE <<>>)]
        /\ IF completes /\ ~scheduleFileDeletionThrows
           THEN /\ timers' = [timers EXCEPT ![id] = @ + 1]
                /\ scheduled' = [scheduled EXCEPT ![id] = @ + 1]
           ELSE UNCHANGED <<timers, scheduled>>
        /\ IF caught
           THEN /\ downloads' = [downloads EXCEPT ![id] = failDownload(tried, message)]
                /\ subs' = emit(heard, id, "error", <<message>>)
                /\ task' = [task EXCEPT ![id] =
                               IF emitErrorThrows(id) THEN "rejected" ELSE "done"]
           ELSE /\ downloads' = [downloads EXCEPT ![id] = tried]
                /\ subs' = heard
                /\ task' = [task EXCEPT ![id] = "done"]
        /\ UNCHANGED <<uuids, starting, returned, progressEmitters, lines, streams, spawns, resolver, reply, preview, query>>

\* The callback of the timer: inside try/catch, if (fs.existsSync(filePath))
\* fs.unlinkSync(filePath). unlinked: unlinkSync succeeds; when it throws,
\* the catch block logs the error and the file stays.
deleteFile_uncaught(dir, id, unlinked) ==
    IF id \notin dir THEN [files |-> dir, outcome |-> "absent"]
    ELSE IF unlinked THEN [files |-> dir \ {id}, outcome |-> "unlinked"]
    ELSE [files |-> dir, outcome |-> "thrown"]

deleteFile(dir, id, unlinked) ==
    IF id \notin dir THEN [files |-> dir, outcome |-> "absent"]
    ELSE IF unlinked THEN [files |-> dir \ {id}, outcome |-> "unlinked"]
    ELSE [files |-> dir, outcome |-> "caught"]

\* The timer of scheduleFileDeletion fires.
RetentionTimer(id, unlinked) ==
    /\ id \in DOMAIN timers
    /\ timers[id] > 0
    /\ timers' = [timers EXCEPT ![id] = @ - 1]
    /\ files' = deleteFile(files, id, unlinked).files
    /\ artifact' = [artifact EXCEPT ![id].swept = deleteFile(files, id, unlinked).outcome]
    /\ UNCHANGED <<uuids, starting, returned, downloads, progressEmitters, ytdlProcess,
                   task, emitted, scheduled, lines, subs, streams, spawns, resolver, reply, preview, query>>

\* ------------------------------------------------------------ subscribers
nextSub == Cardinality(DOMAIN subs) + 1

\* const download = downloads.get(id);
\* if (download) sendEvent('progress', { progress: download.progress });
storedProgress_skipped(sub, table, id) == sub

storedProgress(sub, table, id) ==
    IF id \in DOMAIN table THEN sendEvent(sub, "progress", table[id].progress)
    ELSE sub

\* setupProgressStream(id, res) for a new response.
SetupProgressStream(id) ==
    LET s == nextSub
        sub0 == [id |-> id, statusCode |-> 200, ended |-> FALSE, closed |-> FALSE,
                 received |-> <<>>,
                 late |-> id \in DOMAIN downloads /\ downloads[id].status \in Terminal]
    IN  /\ s <= MaxSubs
        /\ IF id \notin DOMAIN progressEmitters
           THEN /\ subs' = subs @@ (s :> [sub0 EXCEPT !.statusCode = 404, !.ended = TRUE])
                /\ UNCHANGED progressEmitters
           ELSE /\ subs' = subs @@ (s :> storedProgress(sub0, downloads, id))
                /\ progressEmitters' = [progressEmitters EXCEPT ![id] = @ \cup {s}]
        /\ UNCHANGED <<uuids, starting, returned, downloads, ytdlProcess, task, artifact,
                       emitted, files, timers, scheduled, lines, streams, spawns, resolver, reply, preview, query>>

\* The 'close' handler of a subscriber's response:
\* progressEmitter.removeAllListeners(); res.end().
SubscriberClose(s) ==
    /\ s \in DOMAIN subs
    /\ subs[s].statusCode = 200
    /\ ~subs[s].closed
    /\ progressEmitters' = [progressEmitters EXCEPT ![subs[s].id] = {}]
    /\ subs' = [subs EXCEPT ![s].closed = TRUE, ![s].ended = TRUE]
    /\ UNCHANGED <<uuids, starting, returned, downloads, ytdlProcess, task, artifact,
                   emitted, files, timers, scheduled, lines, streams, spawns, resolver, reply, preview, query>>


\* -------------------------------------------------------- streamDownload
nextStream == Cardinality(DOMAIN streams) + 1

\* The state of a streamDownload request when the handler is entered.
newRequest ==
    [id |-> 0,                \* streamId, 0 until uuidv4() is called
     resolved |-> FALSE,      \* resolveRedirect has returned
     resClosed |-> FALSE,     \* the response has emitted 'close'
     closeHandler |-> FALSE,  \* res.on('close', ...) is registered
     headersSent |-> FALSE,
     ended |-> FALSE,         \* res.writableEnded
     statusCode |-> 200,
     ytdlProc |-> "none",     \* "none" | "running" | "spawnError" | "errored" | "closed"
     killed |-> FALSE,        \* ytdlProc.killed
     headers |-> "none",      \* Content-Type / Content-Disposition: "none" | "fallback"
     written |-> 0,           \* payload chunks the pipe has written to the response
     errorBody |-> FALSE,     \* an error body ('Download failed' or a JSON error) was written
     stderr |-> NoDiagnostic, \* history: the diagnostic the extractor wrote to stderr
     meta |-> "none",         \* metadata extractor: "none" | "running" | "exited"
     metaSettled |-> FALSE,   \* the Promise.race of the metadata fetch has settled
     metaKilled |-> FALSE]    \* a signal was sent to the metadata extractor

\* streamDownload up to `await resolveRedirect(original)`.
StreamDownload ==
    /\ nextStream <= MaxStreams
    /\ streams' = streams @@ (nextStream :> newRequest)
    /\ UNCHANGED <<uuids, downloads>>
    /\ UNCHANGED <<jobVars, spawns>>

\* err.message.includes('login required') || err.message.includes('rate-limit reached')
isAuthMessage(message) == message \in {LoginRequired, RateLimited}

\* The catch block of streamDownload, for a caught error with this message.
streamCatch(st, message) ==
    IF ~st.headersSent
    THEN [st EXCEPT !.statusCode = IF isAuthMessage(message) THEN 401 ELSE 500,
                    !.headersSent = TRUE, !.ended = TRUE, !.errorBody = TRUE]
    ELSE [st EXCEPT !.ended = TRUE]

\* res.setHeader('Content-Type', ...) and res.setHeader('Content-Disposition',
\* ...) with the fallback name, before the extractor is spawned.
fallbackHeaders_unset == "none"

fallbackHeaders == "fallback"

\* The extractor processes a stream request starts: one spawn(ytdlPath, args)
\* for the payload and one ytdl(resolved, metaOptions) for the metadata; none
\* when spawn throws.
streamProcesses(spawn) ==
    IF spawn = "throws" THEN [payload |-> 0, metadata |-> 0]
    ELSE [payload |-> 1, metadata |-> 1]

\* streamDownload after the redirect is resolved: the record is inserted, the
\* headers are flushed, the extractor is spawned and piped, the handlers are
\* registered and the metadata fetch is started. spawn: "running" (spawned),
\* "spawnError" (spawn fails, reported by an 'error' event), or "throws"
\* (spawn throws on its arguments, which runs the catch block).
StreamResolved(r, spawn) ==
    LET st == streams[r]
        id == uuidv4
        flushed == [st EXCEPT !.id = id, !.resolved = TRUE, !.headers = fallbackHeaders,
                              !.headersSent = TRUE]
    IN  /\ r \in DOMAIN streams
        /\ ~st.resolved
        /\ uuids < MaxJobs
        /\ uuids' = id
        /\ spawns' = spawns @@ (id :> streamProcesses(spawn))
        /\ IF spawn = "throws"
           THEN /\ downloads' = set(downloads, id, failDownload(newStream, InvalidArgs))
                /\ streams' = [streams EXCEPT ![r] = streamCatch(flushed, InvalidArgs)]
           ELSE /\ downloads' = set(downloads, id, newStream)
                /\ streams' = [streams EXCEPT ![r] =
                       [flushed EXCEPT !.ytdlProc = spawn, !.closeHandler = TRUE,
                                       !.meta = "running"]]
        /\ UNCHANGED jobVars

\* The 'close' handler of the response:
\* if (ytdlProc && !ytdlProc.killed) ytdlProc.kill('SIGTERM').
\* kill() delivers the signal, and sets killed, only to a live process.
closeKill_never(st) == st.killed

closeKill(st) ==
    IF st.ytdlProc = "running" /\ ~st.killed THEN TRUE ELSE st.killed

\* The response emits 'close': the client disconnected, or the response was
\* ended and its connection is done. The handler runs if it is registered.
StreamClientClose(r) ==
    /\ r \in DOMAIN streams
    /\ ~streams[r].resClosed
    /\ streams' = [streams EXCEPT ![r] =
           [@ EXCEPT !.resClosed = TRUE,
                     !.killed = IF streams[r].closeHandler THEN closeKill(streams[r])
                                ELSE streams[r].killed]]
    /\ UNCHANGED <<uuids, downloads>>
    /\ UNCHANGED <<jobVars, spawns>>

\* stdout.pipe(res) delivers a chunk of the payload to the response.
StreamData(r) ==
    /\ r \in DOMAIN streams
    /\ streams[r].ytdlProc = "running"
    /\ ~streams[r].ended
    /\ ~streams[r].resClosed
    /\ streams[r].written < MaxChunks
    /\ streams' = [streams EXCEPT ![r].written = @ + 1]
    /\ UNCHANGED <<uuids, downloads>>
    /\ UNCHANGED <<jobVars, spawns>>

\* What the 'error' handler of ytdlProc does to the response:
\* if (!res.headersSent) res.status(500).end('Download failed').
errorResponse(st) ==
    IF ~st.headersSent
    THEN [st EXCEPT !.statusCode = 500, !.headersSent = TRUE, !.ended = TRUE,
                    !.errorBody = TRUE]
    ELSE st

\* The 'error' handler of ytdlProc (the process could not be spawned).
StreamProcError(r) ==
    LET st == streams[r]
    IN  /\ r \in DOMAIN streams
        /\ st.ytdlProc = "spawnError"
        /\ streams' = [streams EXCEPT ![r] =
               [errorResponse(st) EXCEPT !.ytdlProc = "errored"]]
        /\ downloads' = [downloads EXCEPT ![st.id] = failDownload(@, SpawnFailed)]
        /\ UNCHANGED uuids
        /\ UNCHANGED <<jobVars, spawns>>

\* The record of a stream job after the 'close' handler of ytdlProc:
\* if (code === 0) completed, else error (a signal exit has code null).
streamClosed_falsyCode(entry, code) ==
    IF code # ExitFail
    THEN [entry EXCEPT !.status = "completed"]
    ELSE failDownload(entry, ExitCodeError)

streamClosed(entry, code) ==
    IF code = ExitOk
    THEN [entry EXCEPT !.status = "completed"]
    ELSE failDownload(entry, ExitCodeError)

\* What the 'close' handler of ytdlProc does to the response: on a failure
\* code before the headers are sent, res.status(500).end('Download failed');
\* otherwise the response is ended (by the pipe or by res.end()).
closeResponse_always500(st, code) ==
    IF code # ExitOk
    THEN [st EXCEPT !.statusCode = 500, !.headersSent = TRUE, !.ended = TRUE,
                    !.errorBody = TRUE]
    ELSE [st EXCEPT !.ended = TRUE]

closeResponse(st, code) ==
    IF code # ExitOk /\ ~st.headersSent
    THEN [st EXCEPT !.statusCode = 500, !.headersSent = TRUE, !.ended = TRUE,
                    !.errorBody = TRUE]
    ELSE [st EXCEPT !.ended = TRUE]

\* The 'close' handler of ytdlProc. The pipe to the response has ended the
\* response when stdout ended. A signal exit code needs a delivered signal; a
\* process that was not spawned closes with a failure code. diag is what a
\* failing extractor wrote to stderr, which the 'data' handler only logs.
StreamProcClose(r, code, diag) ==
    LET st == streams[r]
    IN  /\ r \in DOMAIN streams
        /\ st.ytdlProc \in {"running", "errored"}
        /\ code = ExitSignal => st.killed
        /\ st.ytdlProc = "errored" => code = ExitFail
        /\ diag # NoDiagnostic => code = ExitFail /\ st.ytdlProc = "running"
        /\ streams' = [streams EXCEPT ![r] =
               [closeResponse(st, code) EXCEPT !.ytdlProc = "closed", !.stderr = diag]]
        /\ downloads' = [downloads EXCEPT ![st.id] = streamClosed(@, code)]
        /\ UNCHANGED uuids
        /\ UNCHANGED <<jobVars, spawns>>

\* The metadata extractor exits: unless the race has settled, its result (or
\* its failure) is attached to the record.
MetaFinish(r, ok) ==
    LET st == streams[r]
    IN  /\ r \in DOMAIN streams
        /\ st.meta = "running"
        /\ streams' = [streams EXCEPT ![r] = [st EXCEPT !.meta = "exited", !.metaSettled = TRUE]]
        /\ downloads' = IF st.metaSettled THEN downloads
                        ELSE [downloads EXCEPT ![st.id].metadata =
                                 IF ok THEN <<"metadata">> ELSE <<"error">>]
        /\ UNCHANGED uuids
        /\ UNCHANGED <<jobVars, spawns>>

\* The META_FETCH_TIMEOUT_MS timer wins the race: the failure is attached to
\* the record; the extractor keeps running.
MetaTimeout(r) ==
    LET st == streams[r]
    IN  /\ r \in DOMAIN streams
        /\ st.meta = "running"
        /\ ~st.metaSettled
        /\ streams' = [streams EXCEPT ![r] = [st EXCEPT !.metaSettled = TRUE]]
        /\ downloads' = [downloads EXCEPT ![st.id].metadata = <<"error">>]
        /\ UNCHANGED uuids
        /\ UNCHANGED <<jobVars, spawns>>

\* -------------------------------------------------------- resolveRedirect
\* The default of the maxRedirects parameter, which every caller uses.
maxRedirects == 5

\* URLs, as far as resolveRedirect looks at them: the scheme and the rest.
\* "none" is a URL written without a scheme; BadUrl is a string that
\* new URL() rejects; Relative is a Location without scheme and host;
\* NoLocation is a response without a Location header.
Hosts == 1..MaxHosts
BadUrl == [scheme |-> "bad", host |-> 0]
Relative == [scheme |-> "relative", host |-> 0]
NoLocation == [scheme |-> "absent", host |-> 0]
InputUrls == [scheme : {"none", "http", "https"}, host : Hosts] \cup {BadUrl}
Locations == [scheme : {"http", "https", "ftp"}, host : Hosts]
                 \cup {Relative, BadUrl, NoLocation}

\* validateUrl of the routes: the URL has the scheme http or https and its
\* hostname is a supported platform or a subdomain of one. Host 1 stands for
\* the supported platforms, every other host for the rest of the web.
supportedPlatforms == {h \in Hosts : h = 1}

validateUrl(url) ==
    url.scheme \in {"http", "https"} /\ url.host \in supportedPlatforms

\* originalUrl.startsWith('http') ? originalUrl : `https://${originalUrl}`
withScheme(url) ==
    IF url.scheme = "none" THEN [url EXCEPT !.scheme = "https"] ELSE url

\* new URL(location, base).toString(), for a location that parses.
newURL(location, base) ==
    IF location = Relative THEN base ELSE location

\* resolve(url): the first call settles the promise, a later one is ignored.
resolve(rs, url) ==
    [rs EXCEPT !.result = IF @ = null THEN <<url>> ELSE @,
               !.resolveCalls = @ + 1]

\* doRequest(u): at the hop limit the promise is resolved with u; otherwise a
\* HEAD request is issued, and client.request throws on a URL that is
\* neither http nor https.
doRequest_unbounded(rs, u) ==
    IF u.scheme \notin {"http", "https"}
    THEN [rs EXCEPT !.pc = "thrown", !.u = u]
    ELSE [rs EXCEPT !.pc = "requesting", !.u = u, !.requests = @ + 1]

doRequest(rs, u) ==
    IF rs.redirects >= maxRedirects
    THEN [resolve(rs, u) EXCEPT !.pc = "returned", !.u = u]
    ELSE IF u.scheme \notin {"http", "https"}
         THEN [rs EXCEPT !.pc = "thrown", !.u = u]
         ELSE [rs EXCEPT !.pc = "requesting", !.u = u, !.requests = @ + 1]

\* The variables resolveRedirect leaves alone.
jobTable == <<uuids, starting, returned, downloads, progressEmitters, ytdlProcess,
              task, artifact, emitted, files, timers, scheduled, lines, subs,
              streams, spawns, reply, preview, query>>

\* resolveRedirect(originalUrl): the executor of the promise. An exception
\* of new URL() or of the first doRequest is caught: resolve(originalUrl).
ResolveRedirect(originalUrl) ==
    LET rs == [pc |-> "returned", originalUrl |-> originalUrl, u |-> originalUrl,
               redirects |-> 0, requests |-> 0, result |-> null, resolveCalls |-> 0]
        first == doRequest(rs, withScheme(originalUrl))
    IN  /\ resolver = idle
        /\ resolver' = IF originalUrl = BadUrl \/ first.pc = "thrown"
                       THEN resolve(rs, originalUrl)
                       ELSE first
        /\ UNCHANGED jobTable

\* The response callback of the request in flight. A 3xx status with a
\* Location header counts a redirect, parses the Location against u (which
\* throws, outside any try block, when it does not parse) and calls
\* doRequest; any other response resolves with u.
RedirectResponse(redirect, location) ==
    LET counted == [resolver EXCEPT !.redirects = @ + 1]
    IN  /\ resolver.pc = "requesting"
        /\ resolver' =
               IF redirect /\ location # NoLocation
               THEN IF location = BadUrl
                    THEN [counted EXCEPT !.pc = "thrown"]
                    ELSE doRequest(counted, newURL(location, resolver.u))
               ELSE [resolve(resolver, resolver.u) EXCEPT !.pc = "returned"]
        /\ UNCHANGED jobTable

\* The 'timeout' handler of the request: req.destroy(); resolve(originalUrl).
RedirectTimeout ==
    /\ resolver.pc = "requesting"
    /\ resolver' = [resolve(resolver, resolver.originalUrl) EXCEPT !.pc = "destroyed"]
    /\ UNCHANGED jobTable

\* The 'error' handler of the request (a network error, or the error that a
\* destroyed request reports): resolve(originalUrl).
RedirectError ==
    /\ resolver.pc \in {"requesting", "destroyed"}
    /\ resolver' = [resolve(resolver, resolver.originalUrl) EXCEPT !.pc = "returned"]
    /\ UNCHANGED jobTable

\* ----------------------------------------------------------- status route
\* What a request gets when the route handler throws: asyncHandler passes
\* the error to next(), and the error handler (the router's own in the
\* earlier revision, the framework's otherwise) answers 500 with the message.
errorHandler(id, message) ==
    [statusCode |-> 500, id |-> id, error |-> <<message>>, body |-> null, object |-> 0]

\* The body of a successful status answer: the snapshot, with downloadUrl
\* added when filePath is set.
statusBody(status) ==
    IF status.filePath # null
    THEN [snapshot |-> status, downloadUrl |-> status.filePath]
    ELSE [snapshot |-> status, downloadUrl |-> null]

\* status.downloadUrl = ... on the object getDownloadStatus returned: a write
\* to the table record when the object is that record.
setDownloadUrl(table, status) ==
    IF status.object # 0 /\ status.value.filePath # null
    THEN [table EXCEPT ![status.object] = @ @@ [downloadUrl |-> status.value.filePath]]
    ELSE table

\* GET /download/:id.
StatusRoute(id) ==
    LET status == getDownloadStatus(downloads, id)
    IN  /\ reply' = IF status.threw
                    THEN errorHandler(id, status.message)
                    ELSE [statusCode |-> 200, id |-> id, error |-> null,
                          body |-> <<statusBody(status.value)>>,
                          object |-> status.object]
        /\ downloads' = IF status.threw THEN downloads ELSE setDownloadUrl(downloads, status)
        /\ UNCHANGED <<uuids, starting, returned, progressEmitters, ytdlProcess,
                       task, artifact, emitted, files, timers, scheduled, lines, subs,
                       streams, spawns, resolver, preview, query>>

\* ------------------------------------------------------------ file sizes
\* Durations in seconds; 0 stands for a document without a duration.
Durations == {60 * m : m \in 0..MaxMinutes}

\* The raw formats of the extractor, as far as the size and the selection
\* code read them. A missing numeric field is 0 (both are falsy).
RawFormats ==
    [format_id : {"f"},
     filesize : {0, 5000000}, filesize_approx : {0, 4000000},
     tbr : {0, 800}, vbr : {0, 600}, abr : {0, 160},
     width : {0}, height : {0, 360, 480, 720, 1080},
     vcodec : {"none", "avc1"}, acodec : {"none", "mp4a"},
     protocol : {"https"}, url : {TRUE}]

\* Formats as the extractor lists them for a video: 18, 22, 37 and 59 are
\* progressive (with an exact size, a bitrate, neither, an approximate size),
\* 137 is video-only, 140 is audio-only, 95 is an HLS rendition.
raw(id, filesize, approx, tbr, abr, height, vcodec, acodec, protocol) ==
    [format_id |-> id, filesize |-> filesize, filesize_approx |-> approx,
     tbr |-> tbr, vbr |-> 0, abr |-> abr, width |-> 0, height |-> height,
     vcodec |-> vcodec, acodec |-> acodec, protocol |-> protocol, url |-> TRUE]

Catalogue ==
    {raw("18", 5000000, 0, 0, 0, 360, "avc1", "mp4a", "https"),
     raw("22", 0, 0, 800, 0, 720, "avc1", "mp4a", "https"),
     raw("37", 0, 0, 0, 0, 1080, "avc1", "mp4a", "https"),
     raw("59", 0, 4000000, 0, 0, 480, "avc1", "mp4a", "https"),
     raw("137", 0, 0, 0, 0, 1080, "avc1", "none", "https"),
     raw("140", 0, 0, 0, 128, 0, "none", "mp4a", "https"),
     raw("95", 0, 0, 0, 0, 720, "avc1", "mp4a", "m3u8_native")}

\* The format lists of at most n formats.
FormatLists(n) == UNION {[1..k -> Catalogue] : k \in 0..n}

\* What the code asks of the resolved URL: isSoundCloudUrl, or
\* isFacebookUrl || isInstagramUrl, or neither.
Platforms == {"soundcloud", "facebook", "other"}

\* a || b on numbers.
or(a, b) == IF a # 0 THEN a ELSE b

\* !x for a size that is null or a number.
falsy(size) == size = null \/ size = <<0>>

\* (bitrate * 1000 * duration) / 8
bytes(bitrate, duration) == (bitrate * 1000 * duration) \div 8

estimateBitrateByRes_noFloor(height) ==
    IF height >= 1080 THEN 5000
    ELSE IF height >= 720 THEN 2500
    ELSE IF height >= 480 THEN 1000
    ELSE 0

estimateBitrateByRes(height) ==
    IF height >= 1080 THEN 5000
    ELSE IF height >= 720 THEN 2500
    ELSE IF height >= 480 THEN 1000
    ELSE 500

calculateFileSize_approxFirst(format, duration) ==
    IF format.filesize_approx # 0 THEN <<format.filesize_approx>>
    ELSE IF format.filesize # 0 THEN <<format.filesize>>
    ELSE IF duration # 0
         THEN <<bytes(estimateBitrateByRes(or(format.height, 720)), duration)>>
         ELSE null

calculateFileSize(format, duration) ==
    IF format.filesize # 0 THEN <<format.filesize>>
    ELSE IF format.filesize_approx # 0 THEN <<format.filesize_approx>>
    ELSE LET totalBitrate == or(format.tbr, format.abr)
                                 + (IF format.vcodec # "none" THEN format.vbr ELSE 0)
         IN  IF totalBitrate # 0 /\ duration # 0
             THEN <<bytes(totalBitrate, duration)>>
             ELSE IF format.vcodec = "none" /\ duration # 0
                  THEN <<bytes(128, duration)>>
                  ELSE IF estimateBitrateByRes(or(format.height, 720)) # 0 /\ duration # 0
                       THEN <<bytes(estimateBitrateByRes(or(format.height, 720)), duration)>>
                       ELSE null

\* array.sort(descending by key)[0]: empty for an empty array, otherwise the
\* first of the elements with the greatest key (the sort is stable).
best(formats, keys) ==
    IF formats = <<>> THEN <<>>
    ELSE <<formats[CHOOSE i \in 1..Len(formats) :
               \A j \in 1..Len(formats) :
                   \/ keys[j] < keys[i]
                   \/ keys[j] = keys[i] /\ i <= j]>>

\* The sort keys: b.height - a.height; b.abr - a.abr; and
\* b.width - a.width || b.height - a.height.
byHeight(formats) == [i \in 1..Len(formats) |-> formats[i].height]
byAbr(formats) == [i \in 1..Len(formats) |-> formats[i].abr]
byWidthThenHeight(formats) ==
    [i \in 1..Len(formats) |-> formats[i].width * 10000 + formats[i].height]

videoOnly(f) == f.vcodec # "none" /\ f.acodec = "none"
audioOnly(f) == f.acodec # "none" /\ f.vcodec = "none"
progressive(f) == f.vcodec # "none" /\ f.acodec # "none"

getEstimatedSizeForAdaptive(formats, duration) ==
    LET bestVideo == best(SelectSeq(formats, videoOnly), byHeight(SelectSeq(formats, videoOnly)))
        bestAudio == best(SelectSeq(formats, audioOnly), byAbr(SelectSeq(formats, audioOnly)))
        videoSize == IF bestVideo # <<>> THEN calculateFileSize(bestVideo[1], duration) ELSE null
        audioSize == IF bestAudio # <<>> THEN calculateFileSize(bestAudio[1], duration) ELSE null
    IN  IF ~falsy(videoSize) /\ ~falsy(audioSize)
        THEN <<videoSize[1] + audioSize[1]>>
        ELSE IF duration # 0
             THEN <<bytes(estimateBitrateByRes(
                             IF bestVideo # <<>> THEN or(bestVideo[1].height, 720) ELSE 720),
                          duration)>>
             ELSE null

getBestFormatForSizeCalculation(formats) ==
    LET https == SelectSeq(formats, LAMBDA f : f.protocol = "https" /\ progressive(f))
    IN  IF https # <<>>
        THEN best(https, byWidthThenHeight(https))
        ELSE best(formats, byWidthThenHeight(formats))

\* The variables a format-service call leaves alone.
beyondQuery == <<uuids, starting, returned, downloads, progressEmitters, ytdlProcess,
                 task, artifact, emitted, files, timers, scheduled, lines, subs,
                 streams, spawns, resolver, reply, preview>>

\* calculateFileSize(format, duration) applied to one raw format.
CalculateFileSize(format, duration) ==
    /\ query = idle
    /\ query' = [op |-> "calculateFileSize", format |-> format, duration |-> duration,
                 size |-> calculateFileSize(format, duration)]
    /\ UNCHANGED beyondQuery

\* ------------------------------------------------------------- getFormats
\* Error messages of the extractor, and of a property read on undefined.
Http403 == "HTTP Error 403"
Unavailable == "Video unavailable"
Unextractable == "Unable to extract"
TypeErrorMessage == "Cannot read properties of undefined"
UpstreamErrors == {Http403, Unavailable, Unextractable}

is403Error(message) == message = Http403

\* The documents getFormats may get: a duration (0 when missing) and a
\* format list, which is one raw format with any subset of its fields, or a
\* list of catalogue formats; or a document without a format list.
FormatDocuments ==
    [duration : Durations, hasFormats : {TRUE},
     formats : FormatLists(MaxFormats) \cup {<<f>> : f \in RawFormats}]
        \cup [duration : Durations, hasFormats : {FALSE}, formats : {<<>>}]

FormatRuns ==
    [ok : {FALSE}, message : {Http403, Unavailable}] \cup [ok : {TRUE}, info : FormatDocuments]

\* The formats getFormats describes: audio-only ones for SoundCloud,
\* progressive ones otherwise, in the order of the document.
kept(info, platform) ==
    IF platform = "soundcloud" THEN SelectSeq(info.formats, audioOnly)
    ELSE SelectSeq(info.formats, progressive)

\* The filesize of the descriptor of f, before `filesize || null`.
descriptorSize(f, info, platform) ==
    LET calculated == calculateFileSize(f, info.duration)
        adaptive == IF falsy(calculated) /\ platform = "facebook"
                    THEN getEstimatedSizeForAdaptive(info.formats, info.duration)
                    ELSE calculated
    IN  IF falsy(adaptive) /\ info.duration # 0
        THEN <<bytes(IF platform = "soundcloud" THEN 128
                     ELSE estimateBitrateByRes(or(f.height, 720)), info.duration)>>
        ELSE adaptive

\* The descriptor of f (ext, resolution and format_note are copied or
\* defaulted from f and play no part in the sizes or the order).
descriptor(f, info, platform) ==
    [format_id |-> f.format_id,
     filesize |-> IF falsy(descriptorSize(f, info, platform)) THEN null
                  ELSE descriptorSize(f, info, platform)]

\* formats.map(...): one descriptor per kept format, in the same order.
describe(info, platform) ==
    [i \in 1..Len(kept(info, platform)) |-> descriptor(kept(info, platform)[i], info, platform)]

\* The error getFormats throws for a caught error with this message.
formatsError(message) ==
    IF is403Error(message) THEN <<"Failed to fetch formats (HTTP 403)">>
    ELSE <<"Failed to get formats: ", message>>

\* getFormats(url): runs holds the outcome of the extractor run and, when
\* that is a 403 and YTDLP_COOKIE_PATH is set, the outcome of the retry.
GetFormats(platform, cookiePath, runs) ==
    LET final == runs[Len(runs)]
        call == [op |-> "getFormats", platform |-> platform, cookiePath |-> cookiePath,
                 runs |-> runs, threw |-> FALSE, message |-> null, formats |-> <<>>]
    IN  /\ query = idle
        /\ Len(runs) = 2 <=> (~runs[1].ok /\ is403Error(runs[1].message) /\ cookiePath)
        /\ query' = IF ~final.ok
                     THEN [call EXCEPT !.threw = TRUE, !.message = formatsError(final.message)]
                     ELSE IF ~final.info.hasFormats
                          THEN [call EXCEPT !.threw = TRUE,
                                            !.message = formatsError(TypeErrorMessage)]
                          ELSE [call EXCEPT !.formats = describe(final.info, platform)]
        /\ UNCHANGED beyondQuery

\* ------------------------------------------------------- buildYtdlOptions
\* The referers of PLATFORM_CONFIGS and of the URL rules.
GoogleReferer == "https://www.google.com/"
XReferer == "https://x.com"
TikTokReferer == "https://www.tiktok.com/"

\* PLATFORM_CONFIGS[platform].referer; none for a key that is not there.
PlatformReferer ==
    [youtube |-> "https://www.youtube.com/", instagram |-> "https://www.instagram.com/",
     facebook |-> "https://www.facebook.com/", soundcloud |-> "https://soundcloud.com/",
     default |-> GoogleReferer]

\* What the URL tests say about a URL, the platform hints of the input
\* ("" for none), and the referer of input.config ("unset" for none).
Sites == {"x", "tiktok", "soundcloud", "instagram", "other"}
Hints == {"", "youtube", "instagram", "facebook", "soundcloud", "tiktok"}
ConfigReferers == {"unset", "", "https://example.org/"}

\* { ...PLATFORM_CONFIGS.default, ...(PLATFORM_CONFIGS[platform] || {}), ...config }.referer
spreadReferer(platform, configReferer) ==
    IF configReferer # "unset" THEN configReferer
    ELSE IF platform \in DOMAIN PlatformReferer THEN PlatformReferer[platform]
         ELSE PlatformReferer["default"]

\* baseOptions.referer = baseOptions.referer || rule
orReferer(referer, rule) == IF referer # "" THEN referer ELSE rule

\* buildYtdlOptions(input, extraOptions): the referer and the headers of the
\* result. cookiePath, instagramCookies and bearer say whether the
\* environment variables YTDLP_COOKIE_PATH, INSTAGRAM_COOKIES and
\* YTDLP_AUTH_BEARER are set.
buildYtdlOptions(site, hint, configReferer, cookiePath, instagramCookies, bearer) ==
    LET platform == IF hint # "" THEN hint
                    ELSE IF site = "soundcloud" THEN "soundcloud" ELSE "default"
        spread == spreadReferer(platform, configReferer)
        referer == IF site = "x" THEN orReferer(spread, XReferer)
                   ELSE IF site = "tiktok" THEN orReferer(spread, TikTokReferer)
                   ELSE spread
        refererHeader == IF site \in {"x", "tiktok"} \/ referer # ""
                         THEN <<(<<"Referer", referer>>)>> ELSE <<>>
        instagramHeader == IF site = "instagram" /\ instagramCookies
                           THEN <<(<<"cookie", "INSTAGRAM_COOKIES">>)>> ELSE <<>>
        cookieHeader == IF cookiePath THEN <<(<<"cookie", "YTDLP_COOKIE_PATH">>)>> ELSE <<>>
        bearerHeader == IF bearer THEN <<(<<"Authorization", "Bearer">>)>> ELSE <<>>
    IN  [platform |-> platform, referer |-> referer,
         addHeader |-> refererHeader \o instagramHeader \o cookieHeader \o bearerHeader]

BuildYtdlOptions(site, hint, configReferer, cookiePath, instagramCookies, bearer) ==
    /\ query = idle
    /\ query' = [op |-> "buildYtdlOptions", site |-> site, hint |-> hint,
                 configReferer |-> configReferer,
                 options |-> buildYtdlOptions(site, hint, configReferer, cookiePath,
                                              instagramCookies, bearer)]
    /\ UNCHANGED beyondQuery

\* ----------------------------------------------------------- getStreamUrl
\* The format selectors of a request: "" for none, the id of a catalogue
\* format, an id no format has, and a selector with a fallback, which is
\* the id of no format either.
NoSuchFormat == "999"
WithFallback == "999/best"
Selectors == {""} \cup {f.format_id : f \in Catalogue} \cup {NoSuchFormat, WithFallback}

NotAvailable == "Requested format is not available"
NoSuitable == "No suitable stream format found"

\* The extractor run of getStreamUrl for a selector: it fails, or it returns
\* a document, which it does not for a selector that matches no format and
\* names no fallback.
StreamRuns(format) ==
    [ok : {FALSE}, message : {Unavailable, NotAvailable}]
        \cup [ok : {TRUE},
              formats : {formats \in FormatLists(MaxFormats) :
                            \/ format \in {"", WithFallback}
                            \/ \E i \in 1..Len(formats) : formats[i].format_id = format}]

\* array.find(test), given the elements that pass the test in array order:
\* empty when none passes, otherwise the first.
find(passing) ==
    IF passing = <<>> THEN <<>> ELSE <<passing[1]>>

isHls(f) == f.protocol = "m3u8_native"

byFilesize(formats) == [i \in 1..Len(formats) |-> formats[i].filesize]

\* The format getStreamUrl answers with for a document: the HLS format if
\* there is one, else the requested one, else the preferred one; empty when
\* none of them has a url.
selectStream(formats, format, platform) ==
    LET hlsFormat == find(SelectSeq(formats, isHls))
        chosen == IF format = "" THEN <<>>
                  ELSE find(SelectSeq(formats, LAMBDA f : f.format_id = format))
        preferred ==
            IF platform = "soundcloud"
            THEN best(SelectSeq(formats, audioOnly), byAbr(SelectSeq(formats, audioOnly)))
            ELSE best(SelectSeq(formats, LAMBDA f : f.protocol = "https" /\ progressive(f)),
                      byFilesize(SelectSeq(formats,
                                           LAMBDA f : f.protocol = "https" /\ progressive(f))))
    IN  IF hlsFormat # <<>> /\ hlsFormat[1].url THEN hlsFormat
        ELSE IF chosen # <<>> /\ chosen[1].url THEN chosen
        ELSE IF preferred # <<>> /\ preferred[1].url THEN preferred
        ELSE <<>>

\* getStreamUrl(url, format): an error of the extractor is thrown as it is.
GetStreamUrl(platform, format, run) ==
    LET call == [op |-> "getStreamUrl", platform |-> platform, requested |-> format,
                 run |-> run, threw |-> FALSE, message |-> null, format |-> ""]
        selected == selectStream(run.formats, format, platform)
    IN  /\ query = idle
        /\ query' = IF ~run.ok
                     THEN [call EXCEPT !.threw = TRUE, !.message = <<run.message>>]
                     ELSE IF selected = <<>>
                          THEN [call EXCEPT !.threw = TRUE, !.message = <<NoSuitable>>]
                          ELSE [call EXCEPT !.format = selected[1].format_id]
        /\ UNCHANGED beyondQuery

\* -------------------------------------------------------- getVideoPreview
maxRetries == 3

\* The metadata documents of the extractor: which fields it carries. A
\* document without a format list has hasFormats FALSE.
Documents ==
    {info \in [title : BOOLEAN, thumbnail : BOOLEAN, uploader : BOOLEAN,
               view_count : BOOLEAN, filesize : {0, 5000000}, duration : Durations,
               hasFormats : BOOLEAN, formats : FormatLists(1)] :
        info.hasFormats \/ info.formats = <<>>}

\* The outcomes of one extractor run: an error or a document.
ExtractorRuns ==
    [ok : {FALSE}, message : UpstreamErrors] \cup [ok : {TRUE}, info : Documents]

\* The fileSize of the preview, before `fileSize || null`.
previewSize(info, platform) ==
    LET reported == <<info.filesize>>
        bestFormat == IF platform = "soundcloud"
                      THEN best(SelectSeq(info.formats, audioOnly),
                                byAbr(SelectSeq(info.formats, audioOnly)))
                      ELSE getBestFormatForSizeCalculation(info.formats)
        computed == IF falsy(reported) /\ bestFormat # <<>>
                    THEN calculateFileSize(bestFormat[1], info.duration)
                    ELSE reported
        adaptive == IF falsy(computed) /\ platform = "facebook"
                    THEN getEstimatedSizeForAdaptive(info.formats, info.duration)
                    ELSE computed
    IN  IF falsy(adaptive) /\ info.duration # 0
        THEN <<bytes(IF platform = "soundcloud" THEN 128 ELSE estimateBitrateByRes(720),
                     info.duration)>>
        ELSE adaptive

\* Reading info.formats.filter (or passing info.formats on) when the
\* document has no format list throws a TypeError inside the try block.
previewThrows(info) == info.filesize = 0 /\ ~info.hasFormats

\* The object getVideoPreview returns for a document.
makePreview(info, platform) ==
    [title |-> IF info.title THEN "title" ELSE "Untitled",
     thumbnail |-> IF info.thumbnail THEN <<"thumbnail">> ELSE null,
     duration |-> info.duration,
     uploader |-> IF info.uploader THEN "uploader" ELSE "Unknown",
     view_count |-> IF info.view_count THEN <<"views">> ELSE null,
     fileSize |-> IF falsy(previewSize(info, platform)) THEN null
                  ELSE previewSize(info, platform)]

\* The variables getVideoPreview leaves alone.
beyondPreview == <<uuids, starting, returned, downloads, progressEmitters, ytdlProcess,
                   task, artifact, emitted, files, timers, scheduled, lines, subs,
                   streams, spawns, resolver, reply, query>>

\* getVideoPreview(url) up to the first iteration of its loop. platform is
\* what the URL tests say; cookiePath is whether YTDLP_COOKIE_PATH is set.
GetVideoPreview(platform, cookiePath) ==
    /\ preview = idle
    /\ preview' = [pc |-> "running", platform |-> platform, cookiePath |-> cookiePath,
                   retries |-> 0, attempts |-> 0, resolutions |-> 0, builds |-> 0,
                   delays |-> <<>>, upstream |-> null, document |-> FALSE,
                   result |-> null, message |-> null]
    /\ UNCHANGED beyondPreview

\* The catch block of the loop, for an error with this message.
previewCatch(call, message) ==
    LET retries == call.retries + 1
        caught == [call EXCEPT !.retries = retries, !.upstream = <<message>>]
    IN  IF is403Error(message) /\ call.cookiePath /\ retries <= maxRetries
        THEN [caught EXCEPT !.pc = "waiting", !.delays = Append(@, retries)]
        ELSE IF retries > maxRetries
             THEN [caught EXCEPT !.pc = "failed",
                      !.message = IF is403Error(message)
                                  THEN <<"Failed to get video preview (HTTP 403)">>
                                  ELSE <<"Failed to get video preview: ", message>>]
             ELSE [caught EXCEPT !.pc = "waiting", !.delays = Append(@, retries)]

\* One iteration of the loop: resolveRedirect, buildYtdlOptions and the
\* extractor in metadata-only mode, which fails with an error or returns a
\* document; then the return, the throw, or the wait of the catch block.
PreviewAttempt(run) ==
    LET call == [preview EXCEPT !.resolutions = @ + 1, !.builds = @ + 1,
                                !.attempts = @ + 1, !.document = run.ok]
    IN  /\ preview.pc = "running"
        /\ preview' = IF ~run.ok THEN previewCatch(call, run.message)
                       ELSE IF previewThrows(run.info)
                            THEN previewCatch(call, TypeErrorMessage)
                            ELSE [call EXCEPT !.pc = "returned",
                                     !.result = <<makePreview(run.info, call.platform)>>]
        /\ UNCHANGED beyondPreview

\* The backoff timer of the catch block fires (1000 * retries ms).
PreviewTimer ==
    /\ preview.pc = "waiting"
    /\ preview' = [preview EXCEPT !.pc = "running"]
    /\ UNCHANGED beyondPreview

\* ---------------------------------------------------------- specification
\* The to-file jobs, their subscribers and the retention timers.
JobNext ==
    \/ StartDownload
    \/ \E id \in Ids : StartDownloadResolved(id)
    \/ \E id \in Ids, progress \in Percents : StderrData(id, progress)
    \/ \E id \in Ids, ok \in BOOLEAN, wrote \in BOOLEAN : ProcessExit(id, ok, wrote)
    \/ \E id \in Ids : RetentionTimer(id, TRUE)
    \/ \E id \in Ids : SetupProgressStream(id)
    \/ \E s \in Subs : SubscriberClose(s)

\* The streamDownload requests.
StreamNext ==
    \/ StreamDownload
    \/ \E r \in Streams, spawn \in {"running", "spawnError", "throws"} : StreamResolved(r, spawn)
    \/ \E r \in Streams : StreamClientClose(r)
    \/ \E r \in Streams : StreamProcError(r)
    \/ \E r \in Streams, code \in ExitCodes, diag \in Diagnostics : StreamProcClose(r, code, diag)
    \/ \E r \in Streams, ok \in BOOLEAN : MetaFinish(r, ok)
    \/ \E r \in Streams : MetaTimeout(r)

\* The streamDownload requests with the payload the pipe delivers.
PipeNext ==
    \/ StreamNext
    \/ \E r \in Streams : StreamData(r)

JobSpec == Init /\ [][JobNext]_vars

StreamSpec == Init /\ [][StreamNext]_vars

PipeSpec == Init /\ [][PipeNext]_vars

\* The job table as its writers see it: the to-file tasks, the retention
\* timers and the stream requests (the subscribers never write a record).
RecordNext ==
    \/ StartDownload
    \/ \E id \in Ids : StartDownloadResolved(id)
    \/ \E id \in Ids, progress \in Percents : StderrData(id, progress)
    \/ \E id \in Ids, ok \in BOOLEAN, wrote \in BOOLEAN : ProcessExit(id, ok, wrote)
    \/ \E id \in Ids : RetentionTimer(id, TRUE)
    \/ StreamNext

RecordSpec == Init /\ [][RecordNext]_vars

\* The to-file jobs with the status route reading their records, and with
\* the deletion timers under both outcomes of the unlink (the specifications
\* above take the unlink to succeed).
StatusNext ==
    \/ StartDownload
    \/ \E id \in Ids : StartDownloadResolved(id)
    \/ \E id \in Ids, progress \in Percents : StderrData(id, progress)
    \/ \E id \in Ids, ok \in BOOLEAN, wrote \in BOOLEAN : ProcessExit(id, ok, wrote)
    \/ \E id \in Ids, unlinked \in BOOLEAN : RetentionTimer(id, unlinked)
    \/ \E id \in Ids : StatusRoute(id)

StatusSpec == Init /\ [][StatusNext]_vars

\* The jobs of both kinds as setupProgressStream finds them.
SubscribeNext ==
    \/ StartDownload
    \/ \E id \in Ids : StartDownloadResolved(id)
    \/ \E id \in Ids, ok \in BOOLEAN, wrote \in BOOLEAN : ProcessExit(id, ok, wrote)
    \/ StreamDownload
    \/ \E r \in Streams, spawn \in {"running", "spawnError", "throws"} : StreamResolved(r, spawn)
    \/ \E id \in Ids : SetupProgressStream(id)
    \/ \E s \in Subs : SubscriberClose(s)

SubscribeSpec == Init /\ [][SubscribeNext]_vars

\* The two tables under every operation that reaches them: the to-file jobs
\* to their end, the retention timers, the subscribers, and the stream
\* requests to the end of their subprocess.
TableNext ==
    \/ StartDownload
    \/ \E id \in Ids : StartDownloadResolved(id)
    \/ \E id \in Ids, ok \in BOOLEAN, wrote \in BOOLEAN : ProcessExit(id, ok, wrote)
    \/ \E id \in Ids : RetentionTimer(id, TRUE)
    \/ \E id \in Ids : SetupProgressStream(id)
    \/ \E s \in Subs : SubscriberClose(s)
    \/ StreamDownload
    \/ \E r \in Streams, spawn \in {"running", "spawnError", "throws"} : StreamResolved(r, spawn)
    \/ \E r \in Streams : StreamClientClose(r)
    \/ \E r \in Streams : StreamProcError(r)
    \/ \E r \in Streams, code \in ExitCodes : StreamProcClose(r, code, NoDiagnostic)

TableSpec == Init /\ [][TableNext]_vars

\* One resolveRedirect call with the outcomes of its requests.
RequestOutcome ==
    \/ \E redirect \in BOOLEAN, location \in Locations : RedirectResponse(redirect, location)
    \/ RedirectTimeout
    \/ RedirectError

RedirectNext ==
    \/ \E originalUrl \in InputUrls : ResolveRedirect(originalUrl)
    \/ RequestOutcome

RedirectSpec == Init /\ [][RedirectNext]_vars

\* Every request in flight gets an outcome: a response, an error, or at the
\* latest its timeout (timeoutMs).
FairRedirectSpec == RedirectSpec /\ WF_vars(RequestOutcome)

\* One getVideoPreview call with the outcomes of its extractor runs.
PreviewNext ==
    \/ \E platform \in Platforms, cookiePath \in BOOLEAN : GetVideoPreview(platform, cookiePath)
    \/ \E run \in ExtractorRuns : PreviewAttempt(run)
    \/ PreviewTimer

PreviewSpec == Init /\ [][PreviewNext]_vars

\* getFormats over the documents and the extractor failures.
FormatsNext ==
    /\ query = idle
    /\ \/ \E platform \in Platforms, cookiePath \in BOOLEAN, run \in FormatRuns :
              GetFormats(platform, cookiePath, <<run>>)
       \/ \E platform \in Platforms, run \in FormatRuns :
              GetFormats(platform, TRUE, <<[ok |-> FALSE, message |-> Http403], run>>)

FormatsSpec == Init /\ [][FormatsNext]_vars

\* buildYtdlOptions over the URLs, hints, configurations and environments.
OptionsNext ==
    /\ query = idle
    /\ \E site \in Sites, hint \in Hints, configReferer \in ConfigReferers,
          cookiePath \in BOOLEAN, instagramCookies \in BOOLEAN, bearer \in BOOLEAN :
              BuildYtdlOptions(site, hint, configReferer, cookiePath, instagramCookies, bearer)

OptionsSpec == Init /\ [][OptionsNext]_vars

\* getStreamUrl over the selectors and the extractor runs.
StreamUrlNext ==
    /\ query = idle
    /\ \E platform \in Platforms, format \in Selectors :
          \E run \in StreamRuns(format) : GetStreamUrl(platform, format, run)

StreamUrlSpec == Init /\ [][StreamUrlNext]_vars

\* calculateFileSize over every raw format and duration.
SizeNext ==
    /\ query = idle
    /\ \E format \in RawFormats, duration \in Durations : CalculateFileSize(format, duration)

SizeSpec == Init /\ [][SizeNext]_vars

\* What the event loop and the operating system guarantee: a pending
\* resolveRedirect settles (its requests carry a timeout), a due timer
\* fires, a failed spawn is reported, and a process that could not be
\* spawned or that was sent SIGTERM closes. Nothing makes a healthy
\* extractor exit, a client connect or a client disconnect.
KilledClose(r) ==
    /\ r \in DOMAIN streams
    /\ streams[r].killed \/ streams[r].ytdlProc = "errored"
    /\ \E code \in ExitCodes, diag \in Diagnostics : StreamProcClose(r, code, diag)

Fairness ==
    /\ \A id \in Ids : WF_vars(StartDownloadResolved(id))
    /\ \A id \in Ids : WF_vars(RetentionTimer(id, TRUE))
    /\ \A r \in Streams : WF_vars(\E spawn \in {"running", "spawnError", "throws"} : StreamResolved(r, spawn))
    /\ \A r \in Streams : WF_vars(StreamProcError(r))
    /\ \A r \in Streams : WF_vars(KilledClose(r))
    /\ \A r \in Streams : WF_vars(MetaTimeout(r))

FairStreamSpec == StreamSpec /\ Fairness

FairRecordSpec == RecordSpec /\ Fairness


\* Every operation of the service.
Next ==
    \/ JobNext
    \/ PipeNext
    \/ StatusNext
    \/ TableNext
    \/ RedirectNext
    \/ PreviewNext
    \/ FormatsNext
    \/ SizeNext
    \/ OptionsNext
    \/ StreamUrlNext

Spec == Init /\ [][Next]_vars

\* ------------------------------------------------------------------ claims
FileJobs == DOMAIN progressEmitters

\* The statuses of a to-file job before and after a step.
StatusStep(id) == <<downloads[id].status, downloads'[id].status>>

C2_OneTerminalEvent ==
    \A id \in FileJobs :
        /\ Len(emitted[id]) <= 1
        /\ ytdlProcess[id] = "running" => emitted[id] = <<>>
        /\ ytdlProcess[id] = "exited" => emitted[id] = <<downloads[id].status>>

C2_Witness ==
    \E a, b \in FileJobs :
        emitted[a] = <<"completed">> /\ emitted[b] = <<"error">>

IsTerminalEvent(e) == e.event \in Terminal

\* C3: a subscriber that attaches to a job that is already completed or in
\* error receives that job's terminal event.
C3_LateSubscriberGetsTerminal ==
    \A s \in DOMAIN subs :
        subs[s].late /\ subs[s].statusCode = 200 =>
            \E i \in 1..Len(subs[s].received) : IsTerminalEvent(subs[s].received[i])

\* The progress values a subscriber received, in order.
RECURSIVE ProgressValues(_)
ProgressValues(received) ==
    IF received = <<>> THEN <<>>
    ELSE IF Head(received).event = "progress"
         THEN <<Head(received).data>> \o ProgressValues(Tail(received))
         ELSE ProgressValues(Tail(received))

NonDecreasing(seq) == \A i \in 1..Len(seq) - 1 : seq[i] <= seq[i + 1]

\* C4: while a job is downloading its stored progress never decreases, and
\* the progress values sent to any subscriber are non-decreasing.
C4_ProgressMonotonic ==
    /\ [][\A id \in FileJobs :
             downloads[id].status = "downloading" =>
                 downloads'[id].progress >= downloads[id].progress]_vars
    /\ [](\A s \in DOMAIN subs : NonDecreasing(ProgressValues(subs[s].received)))

\* The response of request r emits 'close' in this step.
ClosesNow(r) ==
    r \in DOMAIN streams /\ ~streams[r].resClosed /\ streams'[r].resClosed

\* C5: when the response of a stream request closes while its subprocess is
\* running, the close handler sends the subprocess SIGTERM, and the
\* subprocess is eventually no longer running.
C5_DisconnectKills ==
    /\ [][\A r \in Streams :
             ClosesNow(r) /\ streams[r].ytdlProc = "running" => streams'[r].killed]_vars
    /\ \A r \in Streams :
           [](r \in DOMAIN streams /\ streams[r].killed
                 => <>(r \in DOMAIN streams /\ streams[r].ytdlProc # "running"))

C5_Witness ==
    \E r \in DOMAIN streams :
        streams[r].resClosed /\ streams[r].killed /\ streams[r].ytdlProc = "closed"

\* C6: whenever the client of a stream request has disconnected, no extractor
\* process of that request (streaming or metadata) runs without having been
\* sent a kill signal.
C6_NoLeakedProcess ==
    \A r \in DOMAIN streams :
        streams[r].resClosed =>
            /\ streams[r].ytdlProc = "running" => streams[r].killed
            /\ streams[r].meta = "running" => streams[r].metaKilled

\* C7: every job, to-file or stream, eventually reaches a terminal status
\* (a wall-clock timeout stops a job whose subprocess never exits).
C7_EveryJobTerminates ==
    \A id \in Ids :
        [](id \in DOMAIN downloads
              => <>(id \in DOMAIN downloads /\ downloads[id].status \in Terminal))

\* C8: a failed subprocess of a to-file job ends as status error and the
\* background task of the job never rejects.
C8_NoUnhandledRejection ==
    \A id \in FileJobs :
        /\ task[id] # "rejected"
        /\ artifact[id].exited /\ ~(artifact[id].ok /\ artifact[id].found)
               => downloads[id].status = "error"

\* C9: a job whose subprocess exited successfully without leaving a file
\* named after the job id ends in status error with the output-missing
\* message; a completed job had its artifact in the directory.
C9_OutputMissingIsError ==
    \A id \in FileJobs :
        /\ artifact[id].exited /\ artifact[id].ok /\ ~artifact[id].found
               => /\ downloads[id].status = "error"
                  /\ downloads[id].error = <<OutputMissing>>
        /\ downloads[id].status = "completed"
               => artifact[id].ok /\ artifact[id].found

C9_Witness ==
    \E id \in FileJobs :
        artifact[id].exited /\ artifact[id].ok /\ ~artifact[id].found

\* C10: filePath is set only on a completed job, error only on a job in
\* status error, and no job carries both.
C10_ResultFieldsMatchStatus ==
    \A id \in DOMAIN downloads :
        /\ downloads[id].filePath # null => downloads[id].status = "completed"
        /\ downloads[id].error # null => downloads[id].status = "error"
        /\ ~(downloads[id].filePath # null /\ downloads[id].error # null)

C10_Witness ==
    /\ \E id \in FileJobs : downloads[id].filePath # null
    /\ \E id \in DOMAIN downloads \ FileJobs : downloads[id].error # null


C12_ReturnsBeforeExit ==
    [][/\ \A id \in returned' \ returned :
              /\ ~getDownloadStatus(downloads', id).threw
              /\ getDownloadStatus(downloads', id).value.status \notin Terminal
              /\ ytdlProcess'[id] = "running"
       /\ (\E id \in starting : id \notin starting') => returned' # returned]_vars

C12_Witness ==
    /\ Cardinality(returned) = 2
    /\ \E id \in returned : downloads[id].status = "downloading"


\* C13: a status request for an id without a record is answered not-found
\* (404), and the request leaves the job table unchanged.
C13_UnknownIdIs404 ==
    /\ [](reply.error = <<NotFound>> => reply.statusCode = 404)
    /\ [][reply' # reply => downloads' = downloads]_vars


\* C14: setupProgressStream answers 404 exactly for an id that never
\* existed: a request for an id that getDownloadStatus knows (the id of a
\* to-file job or of a stream job) opens an event stream, and a request that
\* is answered 404 registers no listener and sends no event.
C14_NotFoundOnlyIfNeverExisted ==
    [][\A s \in DOMAIN subs' \ DOMAIN subs :
          /\ subs'[s].statusCode = 404 <=> getDownloadStatus(downloads, subs'[s].id).threw
          /\ subs'[s].statusCode = 404 =>
                 /\ subs'[s].received = <<>>
                 /\ progressEmitters' = progressEmitters]_vars


\* C15: once the terminal event (completed or error) of a job is written to
\* a subscriber's event stream, the server has ended that stream: it does
\* not stay open until the client disconnects.
C15_StreamEndsAfterTerminal ==
    \A s \in DOMAIN subs :
        (\E i \in 1..Len(subs[s].received) : IsTerminalEvent(subs[s].received[i]))
            => subs[s].ended


\* C16: a streamDownload request whose extractor fails with a 'login
\* required' or 'rate-limit reached' diagnostic is answered 401, never 200
\* with an empty or truncated body and never 500.
C16_AuthFailureIs401 ==
    \A r \in DOMAIN streams :
        isAuthMessage(streams[r].stderr) => streams[r].statusCode = 401


\* A step in which the background metadata fetch of request r finishes or
\* times out.
MetaStep(r) ==
    /\ r \in DOMAIN streams
    /\ streams[r].meta = "running"
    /\ \/ streams'[r].meta # streams[r].meta
       \/ streams'[r].metaSettled # streams[r].metaSettled

\* C17: Content-Type and Content-Disposition are set before the first
\* payload chunk is written to the response; once set they never change; and
\* a step of the background metadata fetch changes nothing of the response
\* and only the metadata field of the job record.
C17_HeadersBeforePayload ==
    /\ [](\A r \in DOMAIN streams : streams[r].written > 0 => streams[r].headers # "none")
    /\ [][\A r \in DOMAIN streams :
            /\ streams[r].headers # "none" => streams'[r].headers = streams[r].headers
            /\ MetaStep(r) =>
                   /\ streams'[r] = [streams[r] EXCEPT !.meta = streams'[r].meta,
                                                        !.metaSettled = streams'[r].metaSettled]
                   /\ downloads' = [downloads EXCEPT ![streams[r].id].metadata =
                                        downloads'[streams[r].id].metadata]]_vars

C17_Witness ==
    \E r \in DOMAIN streams :
        /\ streams[r].written > 0
        /\ streams[r].headers = "fallback"
        /\ streams[r].metaSettled
        /\ downloads[streams[r].id].metadata = <<"metadata">>


\* C18: when the stream subprocess closes (with any exit code) or fails to
\* spawn after the headers are sent, no status code is set and no error body
\* is written; the response of a closed subprocess is ended, and the response
\* of a subprocess that failed to spawn is eventually ended.
C18_NoErrorAfterHeaders ==
    /\ [](\A r \in DOMAIN streams :
             streams[r].ytdlProc = "closed" =>
                 /\ streams[r].ended
                 /\ streams[r].statusCode = 200
                 /\ ~streams[r].errorBody)
    /\ [][\A r \in DOMAIN streams :
             streams[r].headersSent =>
                 /\ streams'[r].statusCode = streams[r].statusCode
                 /\ streams'[r].errorBody = streams[r].errorBody]_vars
    /\ \A r \in Streams :
           [](r \in DOMAIN streams /\ streams[r].ytdlProc \in {"spawnError", "errored"}
                 => <>(r \in DOMAIN streams /\ streams[r].ended))

C18_Witness ==
    /\ \E r \in DOMAIN streams :
           /\ streams[r].ytdlProc = "closed"
           /\ downloads[streams[r].id].error = <<ExitCodeError>>
           /\ streams[r].stderr = NoDiagnostic
           /\ streams[r].ended /\ streams[r].statusCode = 200
    /\ \E r \in DOMAIN streams :
           /\ streams[r].ytdlProc = "errored"
           /\ streams[r].headersSent /\ ~streams[r].ended


\* C19: whatever the responses to its HEAD requests are (a redirect cycle
\* and an endless redirect chain included), resolveRedirect counts at most
\* maxRedirects redirects, issues at most maxRedirects requests, and comes
\* to an end: eventually no request is in flight.
C19_RedirectsBounded ==
    /\ [](resolver # idle =>
             /\ resolver.redirects <= maxRedirects
             /\ resolver.requests <= maxRedirects)
    /\ [](resolver # idle => <>(resolver.pc # "requesting"))

C19_Witness ==
    /\ resolver # idle
    /\ resolver.pc = "returned"
    /\ resolver.redirects = maxRedirects
    /\ resolver.requests = maxRedirects
    /\ resolver.result = <<withScheme(resolver.originalUrl)>>

\* C20: resolveRedirect never throws: no exception escapes from a request
\* callback, and a call that has come to an end has resolved its promise
\* with a URL.
C20_NeverThrows ==
    resolver # idle =>
        /\ resolver.pc # "thrown"
        /\ resolver.pc # "requesting" => resolver.result # null


\* C21: once one or more redirects were followed, the call returns the
\* latest URL reached (the target of the last followed redirect), on a
\* timeout and on a network error as well as on hop exhaustion.
C21_ReturnsLatestUrl ==
    (resolver # idle /\ resolver.result # null /\ resolver.redirects >= 1)
        => resolver.result = <<resolver.u>>


\* C22: a getVideoPreview call makes at most 3 extractor attempts, separated
\* by linearly growing delays, and when it fails its error carries the last
\* upstream error message.
C22_ThreeAttemptsThenLastError ==
    preview # idle =>
        /\ preview.attempts <= 3
        /\ \A i \in 1..Len(preview.delays) : preview.delays[i] = i
        /\ preview.pc = "failed" =>
               preview.message = <<"Failed to get video preview: ", preview.upstream[1]>>

\* C23: within one getVideoPreview call the URL and the profile are resolved
\* once: a retry runs no resolveRedirect and no buildYtdlOptions again.
C23_ResolvedOnce ==
    preview # idle => preview.resolutions <= 1 /\ preview.builds <= 1

\* C24: whenever the extractor returns a document, getVideoPreview returns a
\* preview on that attempt, whatever fields the document lacks: a run that
\* returned a document is never followed by a retry or a failure.
C24_DocumentAlwaysReturns ==
    (preview # idle /\ preview.attempts > 0 /\ preview.document)
        => preview.pc = "returned"


\* The document getFormats described, when it returned a list.
Described == query.runs[Len(query.runs)].info

\* C25: for every list of raw formats and every known non-zero duration,
\* each descriptor getFormats returns has a non-null filesize, whatever
\* subset of filesize, filesize_approx, tbr, vbr, abr and height the raw
\* format carries.
C25_SizeNeverNull ==
    (query # idle /\ query.op = "getFormats" /\ ~query.threw /\ Described.duration # 0)
        => \A i \in 1..Len(query.formats) : query.formats[i].filesize # null

C25_Witness ==
    /\ query # idle /\ query.op = "getFormats" /\ ~query.threw
    /\ Described.duration # 0
    /\ Len(query.formats) = 1
    /\ LET f == Described.formats[1]
       IN  /\ f.filesize = 0 /\ f.filesize_approx = 0 /\ f.tbr = 0
           /\ f.vbr = 0 /\ f.abr = 0 /\ f.height = 360
    /\ query.formats[1].filesize = <<500 * 125 * Described.duration>>


\* The bitrate of a raw format in kbps: the total bitrate or else the audio
\* bitrate, plus the video bitrate of a format that has video.
Bitrate(f) ==
    (IF f.tbr # 0 THEN f.tbr ELSE f.abr) + (IF f.vcodec = "none" THEN 0 ELSE f.vbr)

\* The bitrate of the resolution tier of a height in kbps (720 when missing).
Tier(height) ==
    LET h == IF height = 0 THEN 720 ELSE height
    IN  CASE h >= 1080 -> 5000
          [] h >= 720 /\ h < 1080 -> 2500
          [] h >= 480 /\ h < 720 -> 1000
          [] h < 480 -> 500

\* The first three steps of the size priority: the exact size unchanged,
\* then the approximate size, then bitrate times duration.
ReportedOrBitrate(f, d, size) ==
    /\ f.filesize # 0 => size = <<f.filesize>>
    /\ (f.filesize = 0 /\ f.filesize_approx # 0) => size = <<f.filesize_approx>>
    /\ (f.filesize = 0 /\ f.filesize_approx = 0 /\ Bitrate(f) # 0 /\ d # 0)
           => size = <<Bitrate(f) * 125 * d>>
    /\ (f.filesize = 0 /\ f.filesize_approx = 0 /\ d = 0) => size = null

\* C26 (as stated): the size of a raw format is its exact size unchanged,
\* else its approximate size, else bitrate times duration, else the
\* resolution-tier estimate, and null when the duration is unknown.
C26_SizePriority ==
    (query # idle /\ query.op = "calculateFileSize") =>
        /\ ReportedOrBitrate(query.format, query.duration, query.size)
        /\ (/\ query.format.filesize = 0 /\ query.format.filesize_approx = 0
            /\ Bitrate(query.format) = 0 /\ query.duration # 0)
               => query.size = <<Tier(query.format.height) * 125 * query.duration>>

\* C26 (amended): as stated, except that a format without video and without
\* a bitrate is sized at 128 kbps, and only a format with video by its
\* resolution tier.
C26_SizePriorityAudioDefault ==
    (query # idle /\ query.op = "calculateFileSize") =>
        /\ ReportedOrBitrate(query.format, query.duration, query.size)
        /\ (/\ query.format.filesize = 0 /\ query.format.filesize_approx = 0
            /\ Bitrate(query.format) = 0 /\ query.duration # 0)
               => query.size = <<(IF query.format.vcodec = "none" THEN 128
                                  ELSE Tier(query.format.height)) * 125 * query.duration>>

C26_Witness ==
    /\ query # idle /\ query.op = "calculateFileSize"
    /\ query.format.filesize # 0 /\ query.format.filesize_approx # 0
    /\ query.format.tbr # 0 /\ query.duration # 0
    /\ query.size = <<query.format.filesize>>


\* C27: for a document without a progressive format but with a video-only
\* and an audio-only format, getFormats returns exactly one paired
\* descriptor, sized as the sum of the estimates of the best video-only and
\* the best audio-only format (ids 137 and 140 at duration 120:
\* (5000 + 128) * 1000 * 120 / 8 bytes).
C27_PairedDescriptor ==
    (/\ query # idle /\ query.op = "getFormats" /\ ~query.threw
     /\ query.platform # "soundcloud"
     /\ SelectSeq(Described.formats, progressive) = <<>>
     /\ SelectSeq(Described.formats, videoOnly) # <<>>
     /\ SelectSeq(Described.formats, audioOnly) # <<>>)
        => LET video == SelectSeq(Described.formats, videoOnly)
               audio == SelectSeq(Described.formats, audioOnly)
               bestVideo == best(video, byHeight(video))[1]
               bestAudio == best(audio, byAbr(audio))[1]
           IN  /\ Len(query.formats) = 1
               /\ Described.duration # 0 =>
                      query.formats[1].filesize =
                          <<calculateFileSize(bestVideo, Described.duration)[1]
                              + calculateFileSize(bestAudio, Described.duration)[1]>>
               /\ (/\ bestVideo.format_id = "137" /\ bestAudio.format_id = "140"
                   /\ Described.duration = 120)
                      => query.formats[1].filesize = <<76920000>>

\* The descriptor of index i was sized from a reported (exact or
\* approximate) size of its raw format.
Reported(i) ==
    LET f == kept(Described, query.platform)[i]
    IN  f.filesize # 0 \/ f.filesize_approx # 0

\* C28: the list getFormats returns is ordered: every descriptor with a
\* reported size precedes every descriptor with an estimated size, and
\* descriptors of the same provenance are in descending size order.
C28_OrderedByProvenanceAndSize ==
    (query # idle /\ query.op = "getFormats" /\ ~query.threw /\ Described.duration # 0)
        => \A i, j \in 1..Len(query.formats) :
               i < j =>
                   /\ ~(~Reported(i) /\ Reported(j))
                   /\ Reported(i) = Reported(j) =>
                          query.formats[i].filesize[1] >= query.formats[j].filesize[1]


\* C29: for a URL on tiktok.com (x.com / twitter.com) given without a
\* platform hint and without a configured referer, the referer and the
\* Referer header of the options are the TikTok (X) referer, not the
\* referer of the default profile.
C29_PlatformRefererWins ==
    (/\ query # idle /\ query.op = "buildYtdlOptions"
     /\ query.hint = "" /\ query.configReferer = "unset"
     /\ query.site \in {"tiktok", "x"})
        => LET referer == IF query.site = "tiktok" THEN TikTokReferer ELSE XReferer
           IN  /\ query.options.referer = referer
               /\ \E i \in 1..Len(query.options.addHeader) :
                      query.options.addHeader[i] = <<"Referer", referer>>
               /\ \A i \in 1..Len(query.options.addHeader) :
                      query.options.addHeader[i] # <<"Referer", GoogleReferer>>


\* C30: a request that names a format is answered with that format or fails:
\* getStreamUrl never answers with another format (an HLS format or the
\* best progressive format) than the one requested, and a selector that is
\* the id of no format of the document fails.
C30_RequestedFormatOrError ==
    (query # idle /\ query.op = "getStreamUrl" /\ query.requested # "")
        => query.threw \/ query.format = query.requested


\* C31: a getFormats call runs the extractor at most once: when that run
\* fails, the call throws an error that carries the extractor's message, and
\* no second run (with cookies) is made.
C31_OneExtractorRunPerCall ==
    (query # idle /\ query.op = "getFormats")
        => /\ Len(query.runs) <= 1
           /\ ~query.runs[1].ok
                  => /\ query.threw
                     /\ query.message[Len(query.message)] = query.runs[1].message


Held ==
    IF reply.body = null THEN null
    ELSE IF reply.object # 0 THEN <<downloads[reply.object]>>
    ELSE <<reply.body[1].snapshot>>

\* C33: getDownloadStatus returns a copy: the status route, which adds
\* downloadUrl to the object it got, leaves the job table unchanged, and no
\* later step of a job changes an object that was returned earlier.
C33_SnapshotCopy ==
    [][/\ reply' # reply => downloads' = downloads
       /\ reply' = reply => Held' = Held]_vars

C33_Witness ==
    /\ reply.statusCode = 200
    /\ reply.body[1].snapshot.status = "downloading"
    /\ reply.body[1].snapshot.progress = 0
    /\ downloads[reply.id].status = "completed"
    /\ downloads[reply.id].progress = 1
    /\ Held = <<[downloads[reply.id] EXCEPT !.status = "downloading", !.progress = 0,
                                            !.filePath = null]>>


\* C34: when one of several subscribers of a job disconnects, only its own
\* listeners are removed: every subscriber whose response is still open
\* stays attached to the emitter of its job, and so receives the later
\* progress events and the terminal event.
C34_OthersStayAttached ==
    \A s \in DOMAIN subs :
        (subs[s].statusCode = 200 /\ ~subs[s].closed)
            => s \in progressEmitters[subs[s].id]


\* C35: the first event a subscriber receives is a progress event with the
\* progress stored in the job's record at the time it attached, ahead of
\* every live event.
C35_StoredProgressFirst ==
    /\ [][\A s \in DOMAIN subs' \ DOMAIN subs :
             subs'[s].statusCode = 200
                 => subs'[s].received =
                        <<[event |-> "progress", data |-> downloads[subs'[s].id].progress]>>]_vars
    /\ [][\A s \in DOMAIN subs :
             subs[s].received # <<>> => subs'[s].received[1] = subs[s].received[1]]_vars

C35_Witness ==
    \E s \in DOMAIN subs :
        /\ ~subs[s].late
        /\ Len(subs[s].received) = 2
        /\ subs[s].received[1] = [event |-> "progress", data |-> 1]
        /\ subs[s].received[2] = [event |-> "progress", data |-> 0]


\* A progress, completion, error or disconnect step of job id.
StepOf(id) ==
    \/ \E progress \in Percents : StderrData(id, progress)
    \/ \E ok \in BOOLEAN, wrote \in BOOLEAN : ProcessExit(id, ok, wrote)
    \/ \E s \in DOMAIN subs : subs[s].id = id /\ SubscriberClose(s)

\* The step left every other job alone: its record, its emitter and the
\* responses of its subscribers.
Isolated(id) ==
    /\ \A other \in DOMAIN downloads \ {id} :
           /\ downloads'[other] = downloads[other]
           /\ progressEmitters'[other] = progressEmitters[other]
    /\ \A s \in DOMAIN subs : subs[s].id # id => subs'[s] = subs[s]

\* C36: a progress, completion, error or disconnect step of a job leaves
\* the record of every other job unchanged and delivers no event to a
\* subscriber of another job; the filePath of a completed job is the file
\* named after its own id, so no two jobs have the same filePath.
C36_JobsIsolated ==
    /\ [][\A id \in Ids : Isolated(id) \/ ~StepOf(id)]_vars
    /\ [](\A id \in FileJobs :
              /\ downloads[id].status = "completed" => downloads[id].filePath = FilePathOf(id)
              /\ \A other \in FileJobs \ {id} :
                     downloads[id].filePath # null
                         => downloads[id].filePath # downloads[other].filePath)

C36_Witness ==
    /\ FileJobs = {1, 2}
    /\ DOMAIN subs = {1, 2}
    /\ subs[1].id = 1 /\ subs[2].id = 2
    /\ downloads[1].status = "completed" /\ downloads[1].progress = 1
    /\ downloads[2] = newDownload
    /\ Len(subs[1].received) = 3 /\ subs[1].received[3].event = "completed"
    /\ Len(subs[2].received) = 1


\* C37: the URL the callers of resolveRedirect hand to the extractor (the
\* value the promise resolves with) has a host on the validator's list of
\* supported platforms, whatever redirect responses were received.
C37_ExtractorHostAllowListed ==
    (resolver # idle /\ validateUrl(resolver.originalUrl) /\ resolver.result # null)
        => resolver.result[1].host \in supportedPlatforms


\* The record of the stream job of request r.
StreamJob(r) == downloads[streams[r].id]

\* C38: a stream job is 'streaming' exactly while its subprocess runs (or
\* its failed spawn is not reported yet); the 'close' handler marks it
\* 'completed' if and only if the exit code is 0, so an exit by the signal
\* of a client disconnect is recorded as 'error'; 'completed' is final.
C38_CompletedIffExitZero ==
    /\ [](\A r \in DOMAIN streams :
              streams[r].id # 0
                  => /\ StreamJob(r).status \in {"streaming", "completed", "error"}
                     /\ StreamJob(r).status = "streaming"
                            <=> streams[r].ytdlProc \in {"running", "spawnError"}
                     /\ StreamJob(r).status = "completed" => streams[r].ytdlProc = "closed")
    /\ [][\A r \in DOMAIN streams, code \in ExitCodes, diag \in Diagnostics :
              StreamProcClose(r, code, diag)
                  => (StreamJob(r)'.status = "completed" <=> code = ExitOk)]_vars
    /\ [][\A r \in DOMAIN streams :
              (streams[r].id # 0 /\ StreamJob(r).status = "completed")
                  => StreamJob(r)'.status = "completed"]_vars

C38_Witness ==
    \E r, q \in DOMAIN streams :
        /\ streams[r].killed /\ streams[r].resClosed /\ streams[r].ytdlProc = "closed"
        /\ streams[r].id # 0 /\ StreamJob(r).status = "error"
        /\ StreamJob(r).error = <<ExitCodeError>>
        /\ streams[q].id # 0 /\ StreamJob(q).status = "completed"


\* C39: whenever getDownloadStatus reports a filePath for a job (so that
\* the status route reports a downloadUrl), the file of that job exists in
\* the download directory, also after the retention timer has fired.
C39_ReportedArtifactExists ==
    \A id \in DOMAIN downloads :
        getDownloadStatus(downloads, id).value.filePath # null
            => /\ statusBody(getDownloadStatus(downloads, id).value).downloadUrl # null
               /\ id \in files


\* C40: the job table and the emitter table only grow: no step removes an
\* entry or inserts a record again under an existing id; an id that
\* startDownload has returned is known to getDownloadStatus and to
\* setupProgressStream ever after; every id of the emitter table is in the
\* job table.
C40_TablesOnlyGrow ==
    /\ [][/\ DOMAIN downloads \subseteq DOMAIN downloads'
          /\ DOMAIN progressEmitters \subseteq DOMAIN progressEmitters'
          /\ \A id \in DOMAIN downloads :
                 downloads'[id] \in {newDownload, newStream} => downloads'[id] = downloads[id]
          /\ \A s \in DOMAIN subs' \ DOMAIN subs :
                 subs'[s].id \in returned => subs'[s].statusCode = 200]_vars
    /\ [](/\ \A id \in returned : ~getDownloadStatus(downloads, id).threw
          /\ returned \subseteq DOMAIN progressEmitters
          /\ DOMAIN progressEmitters \subseteq DOMAIN downloads)

C40_Witness ==
    /\ returned = {1}
    /\ downloads[1].status = "completed" /\ timers[1] = 0 /\ 1 \notin files
    /\ progressEmitters[1] = {}
    /\ \E s \in DOMAIN subs : subs[s].id = 1 /\ subs[s].closed
    /\ \E s \in DOMAIN subs : subs[s].id = 1 /\ subs[s].late /\ subs[s].statusCode = 200
    /\ \E r \in DOMAIN streams :
           /\ streams[r].id = 2 /\ streams[r].ytdlProc = "closed"
           /\ downloads[2].status = "completed"
====
